---- MODULE Spec2Model ----
(***************************************************************************)
(* Model of src/forex_agent.py: the PriorityEventQueue (a heapq list plus  *)
(* an asyncio.Event), the two producers, the event processor with its      *)
(* resource lock and alert gate, the system monitor, and run().            *)
(*                                                                         *)
(* Time is the value time.time() returns, in whole seconds.  Percent       *)
(* changes are in tenths of a percent.  Events are records with the same   *)
(* four fields for both kinds (an unused field is 0 or "").                *)
(***************************************************************************)
EXTENDS Integers, Sequences, FiniteSets, TLC

\* ------------------------------------------------------------------ bounds
MaxPuts == 2            \* put calls made in one run of the pipeline
MaxQPuts == 3           \* put calls made on the queue alone
MaxTicks == 1           \* times the clock is seen to have gone on between steps
StartTime == 1000       \* first reading of time.time()
MaxQTime == 1           \* clock readings 0..MaxQTime of the queue harness

\* ------------------------------------------------------- program constants
Cooldown == 300
EmergencyThreshold == 15
SpikeThreshold == 8
EVENT_PRIORITIES ==
    [emergency_price |-> 1, breaking_news |-> 1, price_spike |-> 2,
     news |-> 3, status_update |-> 4]

\* two of the five monitored pairs, in list order
monitored_pairs == <<"EUR/USD", "USD/JPY">>
MonitoredSet == {monitored_pairs[i] : i \in DOMAIN monitored_pairs}

\* four of the nine sample_news tuples; words are the lower-cased headline
sample_news ==
    { [headline |-> "ECB announces emergency rate hike",
       words |-> {"ecb", "announces", "emergency", "rate", "hike"},
       pair |-> "EUR/USD"],
      [headline |-> "US inflation exceeds forecasts",
       words |-> {"us", "inflation", "exceeds", "forecasts"},
       pair |-> "USD/JPY"],
      [headline |-> "Fed signals pause in rate hikes",
       words |-> {"fed", "signals", "pause", "in", "rate", "hikes"},
       pair |-> "EUR/USD"],
      [headline |-> "Geopolitical tensions escalate",
       words |-> {"geopolitical", "tensions", "escalate"},
       pair |-> "USD/CHF"] }
BreakingKeywords == {"emergency", "crisis", "war", "disaster"}

\* simulated moves: a normal random-walk step, and two shocks
ChangeValues == {2, 12, -20}
\* the time that passes between two steps: just under a cooldown, or one
TickSteps == {Cooldown - 1, Cooldown}

Processors == {"p1", "p2"}
Producers == {"market", "news"}
Tasks == Producers \cup {"monitor"} \cup Processors
NoEvent == [type |-> "none", pair |-> "", change |-> 0, headline |-> ""]

VARIABLES
    queue,           \* PriorityEventQueue._queue: the heap list
    eventAvailable,  \* PriorityEventQueue._event_available is set
    nput,            \* put calls so far (numbers the entries)
    returned,        \* entries get has returned, in order
    locked,          \* resource_lock is held
    last_alert,      \* market_state[pair]["last_alert"]
    clock,           \* what time.time() returns now
    ticks,           \* Tick steps so far
    configured,      \* the three Africa's Talking variables are all set
    pc,              \* where each task is
    exc,             \* the exception that ended a task
    event,           \* event_processor's local: the event in hand
    now,             \* maybe_trigger_alert's local
    log,             \* the last line each processor printed for its event
    calls,           \* the voice.call invocations made
    stopSignal       \* KeyboardInterrupt was delivered

vars == <<queue, eventAvailable, nput, returned, locked, last_alert, clock,
          ticks, configured, pc, exc, event, now, log, calls,
          stopSignal>>

\* ------------------------------------------------------------------ heapq
\* a < b on the tuples (priority, time.time(), event): the first differing
\* position decides; two unequal dicts cannot be ordered (TypeError)
TupleLt(a, b) ==
    IF a.pri # b.pri THEN (IF a.pri < b.pri THEN "lt" ELSE "ge")
    ELSE IF a.ts # b.ts THEN (IF a.ts < b.ts THEN "lt" ELSE "ge")
    ELSE IF a.ev # b.ev THEN "err"
    ELSE "ge"

Swap(h, i, j) == [h EXCEPT ![i] = h[j], ![j] = h[i]]

\* _siftdown: move h[pos] up towards startpos while it is less than its parent
RECURSIVE SiftDown(_, _, _)
SiftDown(h, startpos, pos) ==
    IF pos > startpos
    THEN LET parentpos == pos \div 2
             c == TupleLt(h[pos], h[parentpos])
         IN  IF c = "err" THEN [heap |-> h, err |-> TRUE]
             ELSE IF c = "lt" THEN SiftDown(Swap(h, pos, parentpos), startpos, parentpos)
             ELSE [heap |-> h, err |-> FALSE]
    ELSE [heap |-> h, err |-> FALSE]

\* _siftup: move the smaller child up until a leaf, then _siftdown from there
RECURSIVE SiftUp(_, _, _)
SiftUp(h, startpos, pos) ==
    LET childpos == 2 * pos
        rightpos == childpos + 1
    IN  IF childpos <= Len(h)
        THEN LET c == IF rightpos <= Len(h)
                      THEN TupleLt(h[childpos], h[rightpos]) ELSE "lt"
                 pick == IF c = "lt" THEN childpos ELSE rightpos
             IN  IF c = "err" THEN [heap |-> h, err |-> TRUE]
                 ELSE SiftUp(Swap(h, pos, pick), startpos, pick)
        ELSE SiftDown(h, startpos, pos)

heappush(h, item) == SiftDown(Append(h, item), 1, Len(h) + 1)

\* heappop of a non-empty list: item is what it returns when err is FALSE
heappop(h) ==
    LET lastelt == h[Len(h)]
        rest == SubSeq(h, 1, Len(h) - 1)
    IN  IF rest = <<>>
        THEN [heap |-> rest, item |-> lastelt, err |-> FALSE]
        ELSE LET r == SiftUp([rest EXCEPT ![1] = lastelt], 1, 1)
             IN  [heap |-> r.heap, item |-> h[1], err |-> r.err]

\* --------------------------------------------------- PriorityEventQueue.put
Entry(priority, t, e, n) == [pri |-> priority, ts |-> t, ev |-> e, seq |-> n]

\* the put calls of one step, in order; the i-th call reads the clock as
\* ts[i]; a call that raises ends the step.  done counts the completed calls
RECURSIVE PutAll(_, _, _, _)
PutAll(h, items, ts, n) ==
    IF items = <<>> THEN [heap |-> h, err |-> FALSE, done |-> 0]
    ELSE LET r == heappush(h, Entry(Head(items).pri, Head(ts), Head(items).ev, n))
         IN  IF r.err THEN [heap |-> r.heap, err |-> TRUE, done |-> 0]
             ELSE LET s == PutAll(r.heap, Tail(items), Tail(ts), n + 1)
                  IN  [heap |-> s.heap, err |-> s.err, done |-> s.done + 1]

Calls(r) == r.done + (IF r.err THEN 1 ELSE 0)

\* put, as called by task self: push, then set the event, which wakes every
\* waiter; a TypeError from heappush leaves put before the set and ends self
put(self, items, ts) ==
    LET r == PutAll(queue, items, ts, nput)
    IN  /\ queue' = r.heap
        /\ nput' = nput + Calls(r)
        /\ eventAvailable' = (eventAvailable \/ r.done > 0)
        /\ pc' = [x \in Tasks |->
                    IF x = self /\ r.err THEN "done"
                    ELSE IF pc[x] = "waiting" /\ r.done > 0 /\ ~eventAvailable
                         THEN "woken"
                    ELSE pc[x]]
        /\ exc' = [exc EXCEPT ![self] = IF r.err THEN "TypeError" ELSE @]

\* ------------------------------------------------------------------- Init
InitCommon ==
    /\ queue = <<>>
    /\ eventAvailable = FALSE
    /\ nput = 0
    /\ returned = <<>>
    /\ locked = FALSE
    /\ last_alert = [p \in MonitoredSet |-> 0]
    /\ clock = StartTime
    /\ ticks = 0
    /\ configured \in BOOLEAN
    /\ exc = [t \in Tasks |-> "none"]
    /\ event = [c \in Processors |-> NoEvent]
    /\ now = [c \in Processors |-> 0]
    /\ log = [c \in Processors |-> ""]
    /\ calls = <<>>
    /\ stopSignal = FALSE

\* run() starts the two producers, one event_processor and the monitor
Init ==
    /\ InitCommon
    /\ pc = [t \in Tasks |->
               IF t = "p1" THEN "get" ELSE IF t = "p2" THEN "off" ELSE "run"]

\* the same pipeline, configured for calls, with a second event_processor
\* on the same queue and lock
InitMC ==
    /\ InitCommon
    /\ configured = TRUE
    /\ pc = [t \in Tasks |-> IF t \in Processors THEN "get" ELSE "run"]

\* the queue alone: one caller of put, one caller of get
InitQ ==
    /\ InitCommon
    /\ configured = FALSE
    /\ pc = [t \in Tasks |->
               IF t = "p1" THEN "get" ELSE IF t = "market" THEN "run" ELSE "off"]

\* ------------------------------------------------------------- the clock
\* time passes between two steps of the tasks
Tick ==
    /\ \E t \in Tasks : pc[t] \notin {"off", "done"}
    /\ ticks < MaxTicks
    /\ \E d \in TickSteps : clock' = clock + d
    /\ ticks' = ticks + 1
    /\ UNCHANGED <<queue, eventAvailable, nput, returned, locked, last_alert,
                   configured, pc, exc, event, now, log, calls,
                   stopSignal>>

\* the readings of n successive time.time() calls in one step: the first is
\* clock, each later one repeats the one before or is one later
Readings(n) ==
    { ts \in [1..n -> clock..(clock + n)] :
        /\ n > 0 => ts[1] = clock
        /\ \A i \in 2..n : ts[i] \in {ts[i-1], ts[i-1] + 1} }

\* the clock after the readings the calls of r took
ClockAfter(r, ts) == IF Calls(r) = 0 THEN clock ELSE ts[Calls(r)]

\* ------------------------------------------------------------ the producers
PriceEvent(pair, change) ==
    [type |-> "price", pair |-> pair, change |-> change, headline |-> ""]
NewsEvent(headline, pair) ==
    [type |-> "news", pair |-> pair, change |-> 0, headline |-> headline]

Abs(x) == IF x < 0 THEN -x ELSE x

\* the event type of a price change, "" for none
event_type(change) ==
    IF Abs(change) > EmergencyThreshold THEN "emergency_price"
    ELSE IF Abs(change) > SpikeThreshold THEN "price_spike"
    ELSE ""

\* the puts of one pass over monitored_pairs, given each pair's change
MarketItems(change) ==
    LET all == [i \in DOMAIN monitored_pairs |->
                  LET ty == event_type(change[monitored_pairs[i]])
                  IN  [pri |-> IF ty = "" THEN 0 ELSE EVENT_PRIORITIES[ty],
                       ev |-> PriceEvent(monitored_pairs[i], change[monitored_pairs[i]])]]
    IN  SelectSeq(all, LAMBDA x : x.pri # 0)

\* one iteration of market_data_stream's loop
market_data_stream ==
    /\ pc["market"] = "run"
    /\ \E change \in [MonitoredSet -> ChangeValues] :
         LET items == MarketItems(change)
         IN  \E ts \in Readings(Len(items)) :
               LET r == PutAll(queue, items, ts, nput)
               IN  /\ nput + Len(items) <= MaxPuts
                   /\ put("market", items, ts)
                   /\ clock' = ClockAfter(r, ts)
    /\ UNCHANGED <<returned, locked, last_alert, ticks, configured, event, now,
                   log, calls, stopSignal>>

\* breaking_news if a keyword occurs in the headline, else news
NewsPriority(words) ==
    IF words \cap BreakingKeywords # {}
    THEN EVENT_PRIORITIES["breaking_news"] ELSE EVENT_PRIORITIES["news"]

\* news_monitor taking resource_lock around its put
news_monitor_TakesLock ==
    /\ pc["news"] = "run"
    /\ nput < MaxPuts
    /\ ~locked
    /\ \E s \in sample_news :
         put("news", <<[pri |-> NewsPriority(s.words),
                        ev |-> NewsEvent(s.headline, s.pair)]>>, <<clock>>)
    /\ UNCHANGED <<returned, locked, last_alert, clock, ticks, configured,
                   event, now, log, calls, stopSignal>>

\* one iteration of news_monitor's loop in which a headline is drawn
news_monitor ==
    /\ pc["news"] = "run"
    /\ nput < MaxPuts
    /\ \E s \in sample_news :
         put("news", <<[pri |-> NewsPriority(s.words),
                        ev |-> NewsEvent(s.headline, s.pair)]>>, <<clock>>)
    /\ UNCHANGED <<returned, locked, last_alert, clock, ticks, configured,
                   event, now, log, calls, stopSignal>>

\* --------------------------------------------------- PriorityEventQueue.get
\* get with entries queued: pop and return the event; a TypeError from
\* heappop leaves get, and event_processor with it
GetPop(c) ==
    /\ pc[c] = "get"
    /\ queue # <<>>
    /\ LET r == heappop(queue)
       IN  /\ queue' = r.heap
           /\ IF r.err
              THEN /\ pc' = [pc EXCEPT ![c] = "done"]
                   /\ exc' = [exc EXCEPT ![c] = "TypeError"]
                   /\ UNCHANGED <<returned, event, log>>
              ELSE /\ pc' = [pc EXCEPT ![c] = "acquire"]
                   /\ returned' = Append(returned,
                        [pri |-> r.item.pri, seq |-> r.item.seq, at |-> nput, by |-> c])
                   /\ event' = [event EXCEPT ![c] = r.item.ev]
                   /\ log' = [log EXCEPT ![c] = "received"]
                   /\ UNCHANGED exc
    /\ UNCHANGED <<eventAvailable, nput, locked, last_alert, clock, ticks,
                   configured, now, calls, stopSignal>>

\* get with nothing queued: wait for the event; a set event is cleared at
\* once and the queue looked at again
GetWait(c) ==
    /\ pc[c] = "get"
    /\ queue = <<>>
    /\ IF eventAvailable
       THEN eventAvailable' = FALSE /\ UNCHANGED pc
       ELSE pc' = [pc EXCEPT ![c] = "waiting"] /\ UNCHANGED eventAvailable
    /\ UNCHANGED <<queue, nput, returned, locked, last_alert, clock, ticks,
                   configured, exc, event, now, log, calls,
                   stopSignal>>

\* the waiter resumes after set: clear the event, look at the queue again
GetResume(c) ==
    /\ pc[c] = "woken"
    /\ eventAvailable' = FALSE
    /\ pc' = [pc EXCEPT ![c] = "get"]
    /\ UNCHANGED <<queue, nput, returned, locked, last_alert, clock, ticks,
                   configured, exc, event, now, log, calls,
                   stopSignal>>

\* -------------------------------------------------------- event_processor
\* inside the async with block of event_processor
CriticalPcs == {"analyze", "gate", "dispatch", "release"}
InCS(c) == pc[c] \in CriticalPcs

\* AcquireResource entering without waiting for the lock
AcquireResource_NoWait(c) ==
    /\ pc[c] = "acquire"
    /\ locked' = TRUE
    /\ pc' = [pc EXCEPT ![c] = "analyze"]
    /\ UNCHANGED <<queue, eventAvailable, nput, returned, last_alert, clock,
                   ticks, configured, exc, event, now, log, calls,
                   stopSignal>>

\* AcquireResource with the gate consulted before the analysis is run
AcquireResource_GateFirst(c) ==
    /\ pc[c] = "acquire"
    /\ ~locked
    /\ locked' = TRUE
    /\ pc' = [pc EXCEPT ![c] = "gate"]
    /\ UNCHANGED <<queue, eventAvailable, nput, returned, last_alert, clock,
                   ticks, configured, exc, event, now, log, calls, stopSignal>>

\* async with self.resource_lock: enter once the lock is free; the handler
\* then builds its prompt (a price event names a monitored pair, so its
\* market_state lookup succeeds) and awaits generate_ai_response
AcquireResource(c) ==
    /\ pc[c] = "acquire"
    /\ ~locked
    /\ locked' = TRUE
    /\ pc' = [pc EXCEPT ![c] = "analyze"]
    /\ UNCHANGED <<queue, eventAvailable, nput, returned, last_alert, clock,
                   ticks, configured, exc, event, now, log, calls, stopSignal>>

\* Unwind with a lock that is unlocked by hand on the normal path only
Unwind_KeepsLock(c, error) ==
    /\ locked' = locked
    /\ pc' = [pc EXCEPT ![c] = "done"]
    /\ exc' = [exc EXCEPT ![c] = error]

\* an exception leaves the handler and the async with block, which releases
\* the lock, and then event_processor, which nothing catches
Unwind(c, error) ==
    /\ locked' = FALSE
    /\ pc' = [pc EXCEPT ![c] = "done"]
    /\ exc' = [exc EXCEPT ![c] = error]

\* generate_ai_response returns, or the model raises
Analyze(c) ==
    /\ pc[c] = "analyze"
    /\ \E ok \in BOOLEAN :
         IF ok
         THEN /\ pc' = [pc EXCEPT ![c] = "gate"]
              /\ UNCHANGED <<locked, exc>>
         ELSE Unwind(c, "AnalysisError")
    /\ UNCHANGED <<queue, eventAvailable, nput, returned, last_alert, clock,
                   ticks, configured, event, now, log, calls,
                   stopSignal>>

\* datetime.utcnow().hour when time.time() is t
HourOf(t) == (t \div 3600) % 24

\* is_market_hours with windows that do cover the day
is_market_hours_AllDay(h) ==
    (0 <= h /\ h < 8) \/ (7 <= h /\ h < 17) \/ (12 <= h /\ h < 24)

\* is_market_hours at hour h
is_market_hours(h) ==
    (0 <= h /\ h < 8) \/ (7 <= h /\ h < 17) \/ (12 <= h /\ h < 22)

\* CooldownActive with a window one second short
CooldownActive_OneShort(t, last) == t - last < Cooldown - 1

\* the cooldown test of maybe_trigger_alert
CooldownActive(t, last) == t - last < Cooldown

\* maybe_trigger_alert up to the alert lines: read the clock, look the pair
\* up (KeyError for a pair that is not monitored), cooldown, market hours
GateCheck(c) ==
    /\ pc[c] = "gate"
    /\ now' = [now EXCEPT ![c] = clock]
    /\ LET pair == event[c].pair
       IN  IF pair \notin MonitoredSet
           THEN /\ Unwind(c, "KeyError")
                /\ UNCHANGED log
           ELSE IF CooldownActive(clock, last_alert[pair])
           THEN /\ log' = [log EXCEPT ![c] = "cooldown"]
                /\ pc' = [pc EXCEPT ![c] = "release"]
                /\ UNCHANGED <<locked, exc>>
           ELSE IF ~is_market_hours(HourOf(clock))
           THEN /\ log' = [log EXCEPT ![c] = "outside hours"]
                /\ pc' = [pc EXCEPT ![c] = "release"]
                /\ UNCHANGED <<locked, exc>>
           ELSE /\ log' = [log EXCEPT ![c] = "alert"]
                /\ pc' = [pc EXCEPT ![c] = "dispatch"]
                /\ UNCHANGED <<locked, exc>>
    /\ UNCHANGED <<queue, eventAvailable, nput, returned, last_alert, clock,
                   ticks, configured, event, calls, stopSignal>>

\* Dispatch without the try/except: an exception from the call propagates
Dispatch_NoCatch(c) ==
    /\ pc[c] = "dispatch"
    /\ IF ~configured
       THEN /\ log' = [log EXCEPT ![c] = "not configured"]
            /\ pc' = [pc EXCEPT ![c] = "release"]
            /\ UNCHANGED <<calls, last_alert, locked, exc>>
       ELSE \E ok \in BOOLEAN :
            /\ calls' = Append(calls, [pair |-> event[c].pair, at |-> now[c], ok |-> ok])
            /\ IF ok
               THEN /\ log' = [log EXCEPT ![c] = "call initiated"]
                    /\ last_alert' = [last_alert EXCEPT ![event[c].pair] = now[c]]
                    /\ pc' = [pc EXCEPT ![c] = "release"]
                    /\ UNCHANGED <<locked, exc>>
               ELSE /\ Unwind(c, "DispatchError")
                    /\ UNCHANGED <<log, last_alert>>
    /\ UNCHANGED <<queue, eventAvailable, nput, returned, clock, ticks,
                   configured, event, now, stopSignal>>

\* Dispatch without the configuration check: the call is always attempted
Dispatch_IgnoresConfig(c) ==
    /\ pc[c] = "dispatch"
    /\ \E ok \in BOOLEAN :
         /\ calls' = Append(calls, [pair |-> event[c].pair, at |-> now[c], ok |-> ok])
         /\ log' = [log EXCEPT ![c] = IF ok THEN "call initiated" ELSE "error"]
         /\ last_alert' = IF ok THEN [last_alert EXCEPT ![event[c].pair] = now[c]]
                          ELSE last_alert
    /\ pc' = [pc EXCEPT ![c] = "release"]
    /\ UNCHANGED <<queue, eventAvailable, nput, returned, locked, clock, ticks,
                   configured, exc, event, now, stopSignal>>

\* the rest of maybe_trigger_alert: skip when not configured, else the try
\* block: voice.call and the call id read from its response.  ok is the
\* block running to its end, where last_alert is set; an exception from the
\* call or from the response is caught and printed
Dispatch(c) ==
    /\ pc[c] = "dispatch"
    /\ IF ~configured
       THEN /\ log' = [log EXCEPT ![c] = "not configured"]
            /\ UNCHANGED <<calls, last_alert>>
       ELSE \E ok \in BOOLEAN :
            /\ calls' = Append(calls, [pair |-> event[c].pair, at |-> now[c], ok |-> ok])
            /\ log' = [log EXCEPT ![c] = IF ok THEN "call initiated" ELSE "error"]
            /\ last_alert' = IF ok THEN [last_alert EXCEPT ![event[c].pair] = now[c]]
                             ELSE last_alert
    /\ pc' = [pc EXCEPT ![c] = "release"]
    /\ UNCHANGED <<queue, eventAvailable, nput, returned, locked, clock, ticks,
                   configured, exc, event, now, stopSignal>>

\* the async with block ends: release the lock
ReleaseResource(c) ==
    /\ pc[c] = "release"
    /\ locked' = FALSE
    /\ pc' = [pc EXCEPT ![c] = "sleep"]
    /\ event' = [event EXCEPT ![c] = NoEvent]
    /\ now' = [now EXCEPT ![c] = 0]
    /\ log' = [log EXCEPT ![c] = ""]
    /\ UNCHANGED <<queue, eventAvailable, nput, returned, last_alert, clock,
                   ticks, configured, exc, calls, stopSignal>>

\* asyncio.sleep(0.1) is over: back to get
Throttle(c) ==
    /\ pc[c] = "sleep"
    /\ pc' = [pc EXCEPT ![c] = "get"]
    /\ UNCHANGED <<queue, eventAvailable, nput, returned, locked, last_alert,
                   clock, ticks, configured, exc, event, now, log, calls, stopSignal>>

event_processor(c) ==
    \/ GetPop(c) \/ GetWait(c) \/ GetResume(c)
    \/ AcquireResource(c) \/ Analyze(c) \/ GateCheck(c) \/ Dispatch(c)
    \/ ReleaseResource(c) \/ Throttle(c)

\* ---------------------------------------------------------- system_monitor
\* system_monitor marking the alerts it reported as seen
system_monitor_Resets ==
    /\ pc["monitor"] = "run"
    /\ last_alert' = [p \in MonitoredSet |-> 0]
    /\ UNCHANGED <<queue, eventAvailable, nput, returned, locked,
                   clock, ticks, configured, pc, exc, event, now, log,
                   calls, stopSignal>>

system_monitor ==
    /\ pc["monitor"] = "run"
    /\ LET depth == Len(queue)
           latest == [p \in MonitoredSet |-> last_alert[p] > 0]
       IN  depth >= 0 /\ latest \in [MonitoredSet -> BOOLEAN]
    /\ UNCHANGED <<queue, eventAvailable, nput, returned, locked, last_alert,
                   clock, ticks, configured, pc, exc, event, now, log,
                   calls, stopSignal>>

\* ---------------------------------------------------------------------- run
Alive(t) == pc[t] \notin {"off", "done"}

\* asyncio.run cancels every task still running; a processor cancelled
\* inside its async with block releases the lock on the way out
CancelAll ==
    /\ pc' = [t \in Tasks |-> IF Alive(t) THEN "done" ELSE pc[t]]
    /\ exc' = [t \in Tasks |-> IF Alive(t) THEN "CancelledError" ELSE exc[t]]
    /\ locked' = (locked /\ ~(\E c \in Processors : InCS(c)))
    /\ event' = [c \in Processors |-> NoEvent]
    /\ now' = [c \in Processors |-> 0]
    /\ log' = [c \in Processors |-> ""]

\* a task ended with an exception: gather raises it in run, which ends
GatherRaises ==
    /\ \E t \in Tasks : exc[t] \notin {"none", "CancelledError"}
    /\ \E t \in Tasks : Alive(t)
    /\ CancelAll
    /\ UNCHANGED <<queue, eventAvailable, nput, returned, last_alert, clock,
                   ticks, configured, calls, stopSignal>>

\* the user stops the agent
KeyboardInterrupt ==
    /\ ~stopSignal
    /\ \E t \in Tasks : Alive(t)
    /\ stopSignal' = TRUE
    /\ CancelAll
    /\ UNCHANGED <<queue, eventAvailable, nput, returned, last_alert, clock,
                   ticks, configured, calls>>

Next ==
    \/ Tick
    \/ market_data_stream
    \/ news_monitor
    \/ system_monitor
    \/ \E c \in Processors : event_processor(c)
    \/ GatherRaises
    \/ KeyboardInterrupt

Spec == Init /\ [][Next]_vars
SpecMC == InitMC /\ [][Next]_vars

\* ------------------------------------------------------- the queue alone
QPriorities == 1..3
QTimes == 0..MaxQTime
QEvents == {PriceEvent("EUR/USD", -20), NewsEvent("US inflation exceeds forecasts", "USD/JPY")}

\* a put call with any priority class, any event, any clock reading
QPut ==
    /\ pc["market"] = "run"
    /\ nput < MaxQPuts
    /\ \E p \in QPriorities, t \in QTimes, e \in QEvents :
         put("market", <<[pri |-> p, ev |-> e]>>, <<t>>)
    /\ UNCHANGED <<returned, locked, last_alert, clock, ticks, configured,
                   event, now, log, calls, stopSignal>>

\* the caller of get takes the event and calls get again
QAgain(c) ==
    /\ pc[c] = "acquire"
    /\ pc' = [pc EXCEPT ![c] = "get"]
    /\ event' = [event EXCEPT ![c] = NoEvent]
    /\ UNCHANGED <<queue, eventAvailable, nput, returned, locked, last_alert,
                   clock, ticks, configured, exc, now, log, calls, stopSignal>>

NextQ ==
    \/ QPut
    \/ \E c \in Processors : GetPop(c) \/ GetWait(c) \/ GetResume(c) \/ QAgain(c)

SpecQ == InitQ /\ [][NextQ]_vars

\* the queue alone with two callers of get
InitQ2 ==
    /\ InitCommon
    /\ configured = FALSE
    /\ pc = [t \in Tasks |->
               IF t \in Processors THEN "get"
               ELSE IF t = "market" THEN "run" ELSE "off"]

SpecQ2 == InitQ2 /\ [][NextQ]_vars

\* ----------------------------------------------- maybe_trigger_alert alone
\* a clock reading in each hour of the day and one in the first five minutes
\* of the epoch (a system clock that was never set), and the ages of the
\* last alert
GateClocks == {StartTime + 3600 * h : h \in 0..23} \cup {Cooldown - 1}
GateAges == {Cooldown - 1, Cooldown, Cooldown + 1}
GateEvents ==
    { PriceEvent("EUR/USD", -20), PriceEvent("USD/JPY", 12),
      NewsEvent("Fed signals pause in rate hikes", "EUR/USD"),
      NewsEvent("Geopolitical tensions escalate", "USD/CHF") }

\* the processor holds the lock, the analysis of its event has returned;
\* the event's pair was never alerted, or GateAges seconds ago
InitGate ==
    /\ queue = <<>>
    /\ eventAvailable = FALSE
    /\ nput = 0
    /\ returned = <<>>
    /\ locked = TRUE
    /\ clock \in GateClocks
    /\ ticks = 0
    /\ configured \in BOOLEAN
    /\ pc = [t \in Tasks |-> IF t = "p1" THEN "gate" ELSE "off"]
    /\ exc = [t \in Tasks |-> "none"]
    /\ \E e \in GateEvents :
         /\ event = [c \in Processors |-> IF c = "p1" THEN e ELSE NoEvent]
         /\ \E last \in {0} \cup {t \in {clock - a : a \in GateAges} : t > 0} :
              last_alert = [p \in MonitoredSet |-> IF p = e.pair THEN last ELSE 0]
    /\ now = [c \in Processors |-> 0]
    /\ log = [c \in Processors |-> IF c = "p1" THEN "received" ELSE ""]
    /\ calls = <<>>
    /\ stopSignal = FALSE

NextGate ==
    \E c \in Processors : GateCheck(c) \/ Dispatch(c) \/ ReleaseResource(c)

SpecGate == InitGate /\ [][NextGate]_vars

\* ================================================================ claims
\* a is due before b: lower priority class, or the same class and put first
Before(a, b) == a.pri < b.pri \/ (a.pri = b.pri /\ a.seq < b.seq)

NoTypeError == \A t \in Tasks : exc[t] # "TypeError"

\* C1: get returns entries in ascending priority class, and entries of one
\* class in the order they were put, whatever the clock readings of the put
\* calls: an entry get returned was due before every entry that was queued
\* with it (put before that get) and left for later.
C1_PriorityThenFifo ==
    NoTypeError =>
      \A i \in DOMAIN returned :
        /\ \A j \in DOMAIN returned :
             (j > i /\ returned[j].seq < returned[i].at)
                => Before(returned[i], returned[j])
        /\ \A k \in DOMAIN queue :
             queue[k].seq < returned[i].at => Before(returned[i], queue[k])

\* C2: at most one execution context is inside the critical section that
\* resource_lock guards.
C2_MutualExclusion == Cardinality({c \in Processors : InCS(c)}) <= 1

\* one processor is inside while the other has an event and wants the lock
C2_Witness == InCS("p1") /\ pc["p2"] = "acquire"

\* C3: a failure of the analysis collaborator is contained in the iteration:
\* it never ends event_processor.
C3_AnalysisFailureContained == \A c \in Processors : exc[c] # "AnalysisError"

\* C4: a dispatch call that failed still sets the key's last_alert to the
\* time of the attempt, so no further dispatch call is made for that key
\* within the cooldown window.
C4_FailedDispatchConsumesCooldown ==
    /\ \A c \in Processors :
         (pc[c] = "release" /\ log[c] = "error")
            => last_alert[event[c].pair] = now[c]
    /\ \A i, j \in DOMAIN calls :
         (i < j /\ calls[i].pair = calls[j].pair /\ ~calls[i].ok)
            => calls[j].at - calls[i].at >= Cooldown

C7_PutNeverFails == \A t \in Producers : exc[t] # "TypeError"

\* C8: a consumer in get with entries queued returns an entry: get never
\* ends in any other way.
C8_GetReturnsEntry == \A c \in Processors : pc[c] # "done"

\* C9: resource_lock is free whenever no processor is inside the critical
\* section: it is released on normal completion, on an exception from a
\* collaborator, and on cancellation.
C9_LockReleasedOnExit == locked => \E c \in Processors : InCS(c)

\* the processor left the critical section by an exception
C9_Witness ==
    \E c \in Processors : exc[c] \in {"AnalysisError", "KeyError"} /\ ~locked

\* C10: no condition is fatal to the pipeline: a task ends only on the
\* external shutdown signal.
C10_OnlyShutdownEnds == \A t \in Tasks : pc[t] = "done" => stopSignal

\* how often entry number n (the n-th put call's) is in the queue or returned
SeqCount(n) ==
    Cardinality({i \in DOMAIN queue : queue[i].seq = n})
      + Cardinality({j \in DOMAIN returned : returned[j].seq = n})

\* C11: every entry put on the queue is in the queue or was returned by get,
\* exactly once: it leaves the queue only by being returned, is never
\* dropped or duplicated, and is never queued again once returned (also
\* when its analysis or its dispatch call failed).
C11_EachEntryOnce == \A n \in 0..(nput - 1) : SeqCount(n) = 1

\* C12: an error raised by voice.call is caught in maybe_trigger_alert and
\* logged; it never ends event_processor, which goes on to release the lock.
C12_DispatchErrorCaught ==
    \A c \in Processors :
       /\ exc[c] # "DispatchError"
       /\ log[c] = "error" =>
            /\ pc[c] = "release" /\ locked
            /\ calls # <<>> /\ ~calls[Len(calls)].ok

\* after a call that failed the processor has dequeued the next event
C12_Witness ==
    /\ pc["p1"] = "acquire" /\ exc["p1"] = "none"
    /\ Len(returned) = 2
    /\ calls # <<>> /\ ~calls[Len(calls)].ok

GateDecided(c) ==
    \/ pc[c] = "dispatch"
    \/ pc[c] = "release" /\ log[c] \in {"cooldown", "outside hours"}

\* the decision of the two checks in order, as the claim states it
GateDecision(t, last) ==
    IF t - last < Cooldown THEN "cooldown"
    ELSE IF ~is_market_hours(HourOf(t)) THEN "outside hours"
    ELSE "alert"

\* the gate decides by the cooldown, then the hours, else permits
C14_DecisionOrder ==
    \A c \in Processors :
       GateDecided(c) =>
          log[c] = GateDecision(now[c], last_alert[event[c].pair])

\* C14: the gate suppresses if now - last_alert < 300, suppresses outside
\* the active hours, otherwise permits (so with last_alert = T it suppresses
\* at T+299 and permits at T+300 and T+301), and the cooldown check permits
\* at any time now for a key whose last_alert was never set.
C14_GateDecision ==
    /\ C14_DecisionOrder
    /\ \A c \in Processors :
         (GateDecided(c) /\ last_alert[event[c].pair] = 0) => log[c] # "cooldown"

\* the steps of one iteration of event_processor, in order
IterationSteps ==
    { <<"get", "waiting">>, <<"waiting", "woken">>, <<"woken", "get">>,
      <<"get", "acquire">>, <<"acquire", "analyze">>, <<"analyze", "gate">>,
      <<"gate", "dispatch">>, <<"gate", "release">>, <<"dispatch", "release">>,
      <<"release", "sleep">>, <<"sleep", "get">> }

\* C15: an iteration of event_processor goes dequeue, acquire, analyze, gate
\* check, dispatch or suppress, release, throttle: no step is skipped (the
\* analysis runs also for an alert that is then suppressed), the gate check
\* and a dispatch call are made with the lock held, and an event is dequeued
\* only with the event before it done with and the lock free.
C15_IterationOrder ==
    [][ /\ \A c \in Processors :
             /\ (pc'[c] # pc[c] /\ pc'[c] # "done")
                   => <<pc[c], pc'[c]>> \in IterationSteps
             /\ pc'[c] \in {"analyze", "gate", "dispatch", "release"} => locked'
             /\ (pc[c] = "get" /\ pc'[c] = "acquire")
                   => (event[c] = NoEvent /\ ~locked /\ event'[c] # NoEvent)
        /\ calls' # calls => \E c \in Processors : pc[c] = "dispatch" /\ locked
        /\ returned' # returned
              => \E c \in Processors : pc[c] = "get" /\ pc'[c] = "acquire"
      ]_vars

\* the call for a priority-1 event is made while a priority-3 entry, queued
\* before that event was dequeued, is still in the queue
C15_Witness ==
    /\ pc["p1"] = "release" /\ log["p1"] = "call initiated"
    /\ returned[Len(returned)].pri = 1
    /\ \E k \in DOMAIN queue :
         queue[k].pri = 3 /\ queue[k].seq < returned[Len(returned)].at

\* C16: last_alert is written only by a processor in its dispatch step,
\* holding the lock; the producers' steps and system_monitor's leave it as
\* it is; the lock changes hands only in a processor's step and the queue
\* only in a put or a get: system_monitor changes none of them.
C16_OnlyProcessorWrites ==
    [][ /\ last_alert' # last_alert
              => \E c \in Processors :
                    pc[c] = "dispatch" /\ locked /\ pc'[c] = "release"
        /\ nput' # nput => (last_alert' = last_alert /\ locked' = locked)
        /\ locked' # locked => \E c \in Processors : pc'[c] # pc[c]
        /\ queue' # queue
              => \/ nput' > nput
                 \/ \E c \in Processors : pc[c] = "get" /\ pc'[c] # "get"
      ]_vars

\* a pair's last_alert is written, and the producers and the monitor go on
C16_Witness ==
    /\ \E p \in MonitoredSet : last_alert[p] > 0
    /\ pc["monitor"] = "run" /\ pc["market"] = "run" /\ pc["news"] = "run"
    /\ queue # <<>>

\* C17: a producer's put is never held up by resource_lock or by a consumer
\* inside get: whenever a producer is running, a step of it that puts an
\* entry is enabled, whoever holds the lock.
C17_PutNeverBlocks ==
    /\ (pc["news"] = "run" /\ nput < MaxPuts)
          => ENABLED (news_monitor /\ nput' = nput + 1)
    /\ (pc["market"] = "run" /\ nput + Len(monitored_pairs) <= MaxPuts)
          => ENABLED (market_data_stream /\ nput' > nput)

\* the lock is held for the analysis of the first event, the queue is empty,
\* and a put that makes it grow is enabled
C17_Witness ==
    /\ locked /\ pc["p1"] = "analyze" /\ queue = <<>>
    /\ ENABLED (news_monitor /\ Len(queue') = 1)

\* C18: with two consumers calling get, under every interleaving with put,
\* every entry that was put is in the queue or was returned to exactly one
\* consumer, a get that returned has returned an entry, and the entries come
\* out in priority-then-arrival order among those queued at each pop.
C18_DisjointOrderedDrain ==
    /\ \A n \in 0..(nput - 1) :
          Cardinality({i \in DOMAIN queue : queue[i].seq = n}) = 0
             => Cardinality({j \in DOMAIN returned : returned[j].seq = n}) = 1
    /\ \A i, j \in DOMAIN returned :
          i # j => returned[i].seq # returned[j].seq
    /\ \A c \in Processors : pc[c] = "acquire" => event[c] # NoEvent
    /\ \A i \in DOMAIN returned :
          /\ \A j \in DOMAIN returned :
               (i < j /\ returned[j].seq < returned[i].at)
                  => Before(returned[i], returned[j])
          /\ \A k \in DOMAIN queue :
               queue[k].seq < returned[i].at => Before(returned[i], queue[k])

\* C19: every event a producer enqueues names a pair that has an entry in
\* market_state, so the lookup of the pair's state never fails.
C19_EveryPairHasState ==
    /\ \A i \in DOMAIN queue : queue[i].ev.pair \in MonitoredSet
    /\ \A c \in Processors : event[c] # NoEvent => event[c].pair \in MonitoredSet
    /\ \A c \in Processors : exc[c] # "KeyError"

\* C20: with every analysis and dispatch call returning and no shutdown, a
\* processor that can take no further step has handled every event that was
\* put: it is suspended in get, the queue is empty and the lock is free.
C20_RestsOnlyDrained ==
    \A c \in Processors :
       (/\ pc[c] # "off"
        /\ exc[c] \notin {"AnalysisError", "CancelledError"}
        /\ ~ENABLED event_processor(c))
          => (pc[c] = "waiting" /\ queue = <<>> /\ ~locked)

====
